---- MODULE Spec2Model ----
(***************************************************************************)
(* gemini-ask (cli/src/main.rs): one invocation of the command-line client *)
(* of the Gemini Interactions API.  main parses the arguments, dispatches  *)
(* one Transport call (create / get / cancel), decodes the body into an    *)
(* InteractionResponse and prints format_response of it.  In text mode     *)
(* format_response collects the cited sources, resolves their redirect     *)
(* URLs concurrently (join_all over resolve_redirect_url) and appends the  *)
(* numbered Sources list and the follow-up hint.                           *)
(*                                                                         *)
(* Option<T> is modelled as a sequence of length at most one: None is <<>> *)
(* and Some(x) is <<x>>.  A URL is the sequence of its "/"-separated       *)
(* parts, so that String::contains is a real substring test.  The rendered *)
(* String is the sequence of the pieces pushed onto it.                    *)
(***************************************************************************)
EXTENDS Naturals, Sequences, FiniteSets

VARIABLES
    cli,          \* the command line (struct Cli)
    env_key,      \* Option: the value of GEMINI_API_KEY in the environment
    pc,           \* position of main
    exit_code,    \* Option: the process's exit status
    err,          \* the message on stderr that ended the process, "" if none
    calls,        \* the Transport functions main has called, in order
    http,         \* the HTTP requests handed to the network so far
    http_resp,    \* Option: the HTTP response of the Transport request
    response,     \* Option: the decoded InteractionResponse
    output,       \* format_response's `output` String, as pushed pieces
    sources,      \* format_response's `sources` vector
    tasks,        \* the resolve futures handed to join_all
    done_order,   \* indices of the futures in the order they completed
    stdout        \* what println! wrote

vars == <<cli, env_key, pc, exit_code, err, calls, http, http_resp,
          response, output, sources, tasks, done_order, stdout>>

----------------------------------------------------------------------------
(* Bounds of the model *)

\* longest `outputs` list of a response handed to format_response (SpecRender)
MaxOutputs == 2

\* longest `outputs` list of a response body in a whole invocation (Spec)
MaxBodyOutputs == 1

----------------------------------------------------------------------------
(* Option *)

None == <<>>
Some(x) == <<x>>
IsSome(o) == o # <<>>
Unwrap(o) == o[1]
UnwrapOr(o, d) == IF o = <<>> THEN d ELSE o[1]

\* s.contains(sub) on sequences of URL parts
Contains(s, sub) ==
    \E i \in 0..Len(s) :
        /\ i + Len(sub) <= Len(s)
        /\ SubSeq(s, i + 1, i + Len(sub)) = sub

\* all sequences over S of length at most n
RECURSIVE SeqsUpTo(_, _)
SeqsUpTo(S, n) ==
    IF n = 0 THEN {<<>>}
    ELSE LET shorter == SeqsUpTo(S, n - 1)
         IN  shorter \cup {Append(s, x) : s \in shorter, x \in S}

----------------------------------------------------------------------------
(* URLs *)

\* "vertexaisearch.cloud.google.com/grounding-api-redirect"
RedirectMarker == <<"vertexaisearch.cloud.google.com", "grounding-api-redirect">>

\* two redirect-wrapper URLs, and a URL of the same host that is no wrapper
RedirA == <<"https:", "", "vertexaisearch.cloud.google.com", "grounding-api-redirect", "AAA">>
RedirB == <<"https:", "", "vertexaisearch.cloud.google.com", "grounding-api-redirect", "BBB">>
Plain == <<"https:", "", "vertexaisearch.cloud.google.com", "docs">>

\* what a `location` header may carry
LocA == <<"https:", "", "a.example">>
LocB == <<"https:", "", "b.example">>
Locations == {LocA, LocB}

----------------------------------------------------------------------------
(* Command line: struct Cli, enum Commands, enum OutputFormat.  The query  *)
(* texts, --interaction, --file and --max-results select no mode and reach *)
(* no branch of main or format_response; they are left out of the record.  *)

OutputFormat == {"Text", "Json"}

Command(name, level) == [name |-> name, thinking_level |-> level]

Commands ==
    {Command(n, "") : n \in {"Search", "Ask", "Think", "Status", "Cancel"}}
        \cup {Command("FollowUp", l) : l \in {"medium", "low"}}

Argvs ==
    [search : BOOLEAN, ask : BOOLEAN, think : BOOLEAN,
     command : {None} \cup {Some(c) : c \in Commands},
     output : OutputFormat]

\* the ids clap gives the arguments of Cli: the field names
ArgIds == {"search", "ask", "think", "interaction", "file", "output"}

\* #[arg(conflicts_with = ...)] of the three shorthand flags
ConflictsWith ==
    [search |-> {"ask_query", "think_query"},
     ask    |-> {"search", "think_query"},
     think  |-> {"search", "ask_query"}]

\* the shorthand flags present on the command line
PresentFlags(c) ==
    {f \in {"search", "ask", "think"} :
        \/ f = "search" /\ c.search
        \/ f = "ask" /\ c.ask
        \/ f = "think" /\ c.think}

\* clap's validation: two present arguments conflict when either names the id of
\* the other; an id that names no argument of the command matches nothing (clap
\* looks for such ids only in the assertions of a debug build, which end the
\* process before any of main runs; the model is of the release binary)
ArgConflictFound(c) ==
    \E a \in PresentFlags(c), b \in PresentFlags(c) :
        a # b /\ b \in ConflictsWith[a] \cap ArgIds

----------------------------------------------------------------------------
(* Wire format: InteractionResponse, Output, Annotation, SearchResult, ApiError *)

Annotation(source) == [source |-> source]
SearchResult(url, title) == [url |-> url, title |-> title]
Out(type, text, annotations, result) ==
    [type |-> type, text |-> text, annotations |-> annotations, result |-> result]
ApiError(message, code) == [message |-> message, code |-> code]

\* the Output values the service's bodies are drawn from
OutputKinds ==
    { Out("text", Some("Paris is the capital of France."), None, None),
      Out("text", Some("Cited."),
          Some(<<Annotation(None), Annotation(Some(RedirA))>>),
          Some(<<SearchResult(Some(RedirB), Some("Hidden"))>>)),
      Out("text", None, Some(<<Annotation(Some(Plain))>>), None),
      Out("google_search_result", Some("ignored"), None,
          Some(<<SearchResult(Some(RedirA), Some("A Site")),
                 SearchResult(Some(RedirB), None)>>)),
      Out("google_search_result", None,
          Some(<<Annotation(Some(RedirB))>>),
          Some(<<SearchResult(None, Some("No URL")),
                 SearchResult(Some(Plain), Some("P Site"))>>)) }

ApiErrors ==
    {ApiError(Some("quota exceeded"), Some("429")), ApiError(None, None)}

\* the decoded responses with at most n outputs
Responses(n) ==
    [id : {None, Some("abc123")},
     status : {Some("completed")},
     outputs : {None} \cup {Some(l) : l \in SeqsUpTo(OutputKinds, n)},
     usage : {None},
     error : {None} \cup {Some(e) : e \in ApiErrors}]

\* the HTTP response of the Transport request: a status code and a body, which is
\* either JSON of the InteractionResponse shape (Some) or anything else (None)
HttpStatuses == {"200", "429"}
HttpResponses ==
    [status : HttpStatuses,
     body : {None} \cup {Some(r) : r \in Responses(MaxBodyOutputs)}]

----------------------------------------------------------------------------
(* Transport *)

\* the anyhow contexts of the three failures of a Transport function
ConfigError == "GEMINI_API_KEY environment variable not set"
TransportError == "Failed to send request"
DecodeError == "Failed to parse response"

Call(op, level, instruction, max_tokens) ==
    [op |-> op, thinking_level |-> level, system_instruction |-> instruction,
     max_tokens |-> max_tokens, background |-> FALSE]

Request(method, target) == [method |-> method, target |-> target]

\* the request each Transport function sends
TransportRequest(op) ==
    CASE op = "create" -> Request("POST", <<"interactions">>)
      [] op = "get"    -> Request("GET", <<"interactions", "id">>)
      [] op = "cancel" -> Request("POST", <<"interactions", "id", "cancel">>)

\* get_api_key mutated: a missing variable yields an empty key
get_api_key_lenient(env) == Some(UnwrapOr(env, ""))

\* env::var("GEMINI_API_KEY"): Some(key), or None for the Err
get_api_key(env) == env

\* the dispatch chain of main: the Transport call the command line selects
Dispatch(c) ==
    IF c.search THEN Some(Call("create", "minimal", Some("search_template"), 4096))
    ELSE IF c.ask THEN Some(Call("create", "medium", Some("concise"), 8192))
    ELSE IF c.think THEN Some(Call("create", "high", Some("step_by_step"), 16384))
    ELSE IF IsSome(c.command) THEN
        LET cmd == Unwrap(c.command) IN
        CASE cmd.name = "Search"   -> Some(Call("create", "minimal", Some("search_template"), 4096))
          [] cmd.name = "Ask"      -> Some(Call("create", "medium", Some("concise"), 8192))
          [] cmd.name = "Think"    -> Some(Call("create", "high", Some("step_by_step"), 16384))
          [] cmd.name = "FollowUp" -> Some(Call("create", cmd.thinking_level, None, 8192))
          [] cmd.name = "Status"   -> Some(Call("get", "", None, 0))
          [] cmd.name = "Cancel"   -> Some(Call("cancel", "", None, 0))
    ELSE None

----------------------------------------------------------------------------
(* Redirect Resolver: resolve_redirect_url *)

\* the test mutated: the host alone decides
NeedsResolutionHostOnly(url) == Contains(url, <<RedirectMarker[1]>>)

\* url.contains("vertexaisearch.cloud.google.com/grounding-api-redirect")
NeedsResolution(url) == Contains(url, RedirectMarker)

\* what client.head(&url).send().await can yield: an Err (connection failure or the
\* 5 s timeout), or a response whose `location` header is absent, present but not
\* text (to_str is Err), or text
HeadOutcomes ==
    {[send |-> s, location |-> None] : s \in {"error", "timeout"}}
        \cup {[send |-> "ok", location |-> None]}
        \cup {[send |-> "ok", location |-> Some([to_str |-> None])]}
        \cup {[send |-> "ok", location |-> Some([to_str |-> Some(l)])] : l \in Locations}

\* the result mutated: a failed resolution yields an empty URL
HeadResultOrEmpty(url, o) ==
    IF o.send = "ok" /\ IsSome(o.location) /\ IsSome(Unwrap(o.location).to_str)
    THEN Unwrap(Unwrap(o.location).to_str)
    ELSE <<>>

\* the nested if-lets after the request: the header's text, else the url
HeadResult(url, o) ==
    IF o.send = "ok"
    THEN IF IsSome(o.location)
         THEN IF IsSome(Unwrap(o.location).to_str)
              THEN Unwrap(Unwrap(o.location).to_str)
              ELSE url
         ELSE url
    ELSE url

----------------------------------------------------------------------------
(* Response Renderer: format_response *)

Piece(kind, n, title, url, text, doc) ==
    [kind |-> kind, n |-> n, title |-> title, url |-> url, text |-> text, doc |-> doc]

\* serde_json::to_string_pretty(response)
JsonPiece(r) == Piece("json", 0, "", <<>>, "", Some(r))
\* "Error: {}\n"
ErrorPiece(message) == Piece("error", 0, "", <<>>, message, None)
\* the text of an Output
TextPiece(text) == Piece("text", 0, "", <<>>, text, None)
\* "\n\nSources:\n"
SourcesHeader == Piece("sources", 0, "", <<>>, "", None)
\* "{}. [{}]({})\n"
SourcePiece(n, title, url) == Piece("source", n, title, url, "", None)
\* "\n---\n"
Separator == Piece("separator", 0, "", <<>>, "", None)
\* "To follow up, use interaction_id: {}\n"
HintPiece(id) == Piece("hint", 0, "", <<>>, id, None)

\* the branch mutated: the error check comes before the match on the format
FormatBranchErrorFirst(r, format) ==
    IF IsSome(r.error) THEN "error"
    ELSE IF format = "Json" THEN "json" ELSE "text"

\* the branch mutated: text mode does not check the error
FormatBranchNoErrorCheck(r, format) ==
    IF format = "Json" THEN "json" ELSE "text"

\* which arm of format_response the response takes: the match on the format first,
\* the error check inside the Text arm
FormatBranch(r, format) ==
    IF format = "Json" THEN "json"
    ELSE IF IsSome(r.error) THEN "error"
    ELSE "text"

\* error.message.as_deref().unwrap_or("Unknown error")
ErrorMessage(e) == UnwrapOr(e.message, "Unknown error")

\* "Extract text": the text of every Output of type "text", in order
RECURSIVE ExtractText(_)
ExtractText(outs) ==
    IF outs = <<>> THEN <<>>
    ELSE LET out == Head(outs)
             piece == IF out.type = "text" /\ IsSome(out.text)
                      THEN <<TextPiece(Unwrap(out.text))>>
                      ELSE <<>>
         IN  piece \o ExtractText(Tail(outs))

Source(title, url) == [title |-> title, url |-> url]

\* the push mutated: a source is a duplicate only when title and url both match
PushUniqueByPair(srcs, entry) ==
    IF \E i \in 1..Len(srcs) : srcs[i] = entry THEN srcs ELSE Append(srcs, entry)

\* if !sources.iter().any(|(_, u)| u == url) { sources.push(entry) }
PushUnique(srcs, entry) ==
    IF \E i \in 1..Len(srcs) : srcs[i].url = entry.url THEN srcs ELSE Append(srcs, entry)

\* the loop over the annotations of one Output
RECURSIVE CollectAnnotations(_, _)
CollectAnnotations(srcs, anns) ==
    IF anns = <<>> THEN srcs
    ELSE LET ann == Head(anns)
             next == IF IsSome(ann.source)
                     THEN PushUnique(srcs, Source("Source", Unwrap(ann.source)))
                     ELSE srcs
         IN  CollectAnnotations(next, Tail(anns))

\* the loop over the search results of one Output
RECURSIVE CollectResults(_, _)
CollectResults(srcs, results) ==
    IF results = <<>> THEN srcs
    ELSE LET result == Head(results)
             next == IF IsSome(result.url)
                     THEN PushUnique(srcs, Source(UnwrapOr(result.title, "Untitled"),
                                                  Unwrap(result.url)))
                     ELSE srcs
         IN  CollectResults(next, Tail(results))

\* "Collect sources": the loop over the outputs
RECURSIVE CollectSources(_, _)
CollectSources(srcs, outs) ==
    IF outs = <<>> THEN srcs
    ELSE LET out == Head(outs)
             fromAnns == IF IsSome(out.annotations)
                         THEN CollectAnnotations(srcs, Unwrap(out.annotations))
                         ELSE srcs
             fromResults == IF out.type = "google_search_result" /\ IsSome(out.result)
                            THEN CollectResults(fromAnns, Unwrap(out.result))
                            ELSE fromAnns
         IN  CollectSources(fromResults, Tail(outs))

\* one resolve future: the async block holding (title, url)
Task(title, url) ==
    [title |-> title, url |-> url, st |-> "pending", client |-> "",
     head |-> None, resolved |-> None]

\* sources.iter().map(...).collect()
ResolveFutures(srcs) == [i \in 1..Len(srcs) |-> Task(srcs[i].title, srcs[i].url)]

\* join_all mutated: the results come in the order of completion
JoinAllByCompletion(ts, order) ==
    [k \in 1..Len(order) |-> Source(ts[order[k]].title, Unwrap(ts[order[k]].resolved))]

\* join_all(resolve_futures).await: the (title, resolved) of each future, in the
\* order of the futures
JoinAll(ts, order) ==
    [i \in 1..Len(ts) |-> Source(ts[i].title, Unwrap(ts[i].resolved))]

\* the Sources section
SourcesSection(resolved_sources) ==
    <<SourcesHeader>> \o
    [i \in 1..Len(resolved_sources) |->
        SourcePiece(i, resolved_sources[i].title, resolved_sources[i].url)]

\* "Add follow-up instructions"
Footer(r) ==
    <<Separator>> \o (IF IsSome(r.id) THEN <<HintPiece(Unwrap(r.id))>> ELSE <<>>)

\* the text arm mutated: the source list is written before the resolutions are awaited
TextBeforeJoinEager(r) ==
    LET outs == UnwrapOr(r.outputs, <<>>)
    IN  ExtractText(outs) \o SourcesSection(CollectSources(<<>>, outs))

\* the text arm up to the join: the text of the outputs
TextBeforeJoin(r) == ExtractText(UnwrapOr(r.outputs, <<>>))

----------------------------------------------------------------------------
(* The invocation: main *)

Init ==
    /\ cli \in Argvs
    /\ env_key \in {None, Some("secret")}
    /\ pc = "parse"
    /\ exit_code = None
    /\ err = ""
    /\ calls = <<>>
    /\ http = {}
    /\ http_resp = None
    /\ response = None
    /\ output = <<>>
    /\ sources = <<>>
    /\ tasks = <<>>
    /\ done_order = <<>>
    /\ stdout = <<>>

\* the process ends with this status and this message on stderr
Exit(code, message) ==
    /\ pc' = "exited"
    /\ exit_code' = Some(code)
    /\ err' = message

\* Cli::parse() finds two conflicting arguments: usage error
ParseRejects ==
    /\ pc = "parse"
    /\ ArgConflictFound(cli)
    /\ Exit(2, "error: the argument cannot be used with")
    /\ UNCHANGED <<cli, env_key, calls, http, http_resp, response,
                   output, sources, tasks, done_order, stdout>>

\* Cli::parse() returns the Cli
ParseAccepts ==
    /\ pc = "parse"
    /\ ~ArgConflictFound(cli)
    /\ pc' = "dispatch"
    /\ UNCHANGED <<cli, env_key, exit_code, err, calls, http, http_resp,
                   response, output, sources, tasks, done_order, stdout>>

\* the final else of main: no flag and no subcommand
NoMode ==
    /\ pc = "dispatch"
    /\ Dispatch(cli) = None
    /\ Exit(1, "No command or query provided. Use --help for usage.")
    /\ UNCHANGED <<cli, env_key, calls, http, http_resp, response,
                   output, sources, tasks, done_order, stdout>>

\* main calls create_interaction, get_interaction or cancel_interaction
CallTransport ==
    /\ pc = "dispatch"
    /\ IsSome(Dispatch(cli))
    /\ calls' = Append(calls, Unwrap(Dispatch(cli)))
    /\ pc' = "get_api_key"
    /\ UNCHANGED <<cli, env_key, exit_code, err, http, http_resp,
                   response, output, sources, tasks, done_order, stdout>>

\* let api_key = get_api_key()?  with the variable not set
GetApiKeyFails ==
    /\ pc = "get_api_key"
    /\ get_api_key(env_key) = None
    /\ Exit(1, ConfigError)
    /\ UNCHANGED <<cli, env_key, calls, http, http_resp, response,
                   output, sources, tasks, done_order, stdout>>

\* client.post(..) / client.get(..) ... .send()
SendRequest ==
    /\ pc = "get_api_key"
    /\ IsSome(get_api_key(env_key))
    /\ http' = http \cup {TransportRequest(calls[Len(calls)].op)}
    /\ pc' = "send"
    /\ UNCHANGED <<cli, env_key, exit_code, err, calls, http_resp,
                   response, output, sources, tasks, done_order, stdout>>

\* .send().await is an Err
SendFails ==
    /\ pc = "send"
    /\ Exit(1, TransportError)
    /\ UNCHANGED <<cli, env_key, calls, http, http_resp, response,
                   output, sources, tasks, done_order, stdout>>

\* .send().await is Ok(response), of any status code
ReceiveResponse ==
    /\ pc = "send"
    /\ \E h \in HttpResponses : http_resp' = Some(h)
    /\ pc' = "decode"
    /\ UNCHANGED <<cli, env_key, exit_code, err, calls, http,
                   response, output, sources, tasks, done_order, stdout>>

\* the decoding mutated: a status that is no success is an error
DecodableOnSuccess(h) == h.status = "200" /\ IsSome(h.body)

\* response.json::<InteractionResponse>() is Ok: the status code is not looked at
Decodable(h) == IsSome(h.body)

\* response.json().await is an Err
DecodeFails ==
    /\ pc = "decode"
    /\ ~Decodable(Unwrap(http_resp))
    /\ Exit(1, DecodeError)
    /\ UNCHANGED <<cli, env_key, calls, http, http_resp, response,
                   output, sources, tasks, done_order, stdout>>

\* response.json().await is Ok(data); main calls format_response
DecodeOk ==
    /\ pc = "decode"
    /\ Decodable(Unwrap(http_resp))
    /\ response' = Unwrap(http_resp).body
    /\ pc' = "format"
    /\ UNCHANGED <<cli, env_key, exit_code, err, calls, http, http_resp,
                   output, sources, tasks, done_order, stdout>>

\* format_response, OutputFormat::Json
FormatJson ==
    /\ pc = "format"
    /\ FormatBranch(Unwrap(response), cli.output) = "json"
    /\ output' = <<JsonPiece(Unwrap(response))>>
    /\ pc' = "print"
    /\ UNCHANGED <<cli, env_key, exit_code, err, calls, http, http_resp,
                   response, sources, tasks, done_order, stdout>>

\* format_response, OutputFormat::Text with an error: the early return
FormatError ==
    /\ pc = "format"
    /\ FormatBranch(Unwrap(response), cli.output) = "error"
    /\ output' = <<ErrorPiece(ErrorMessage(Unwrap(Unwrap(response).error)))>>
    /\ pc' = "print"
    /\ UNCHANGED <<cli, env_key, exit_code, err, calls, http, http_resp,
                   response, sources, tasks, done_order, stdout>>

\* format_response, OutputFormat::Text, no source collected: no await, the
\* footer follows the text
FormatTextNoSources ==
    /\ pc = "format"
    /\ FormatBranch(Unwrap(response), cli.output) = "text"
    /\ LET r == Unwrap(response)
           srcs == CollectSources(<<>>, UnwrapOr(r.outputs, <<>>))
       IN  /\ srcs = <<>>
           /\ sources' = srcs
           /\ output' = TextBeforeJoin(r) \o Footer(r)
    /\ pc' = "print"
    /\ UNCHANGED <<cli, env_key, exit_code, err, calls, http, http_resp,
                   response, tasks, done_order, stdout>>

\* format_response, OutputFormat::Text with sources: up to join_all(..).await
FormatTextSpawn ==
    /\ pc = "format"
    /\ FormatBranch(Unwrap(response), cli.output) = "text"
    /\ LET r == Unwrap(response)
           srcs == CollectSources(<<>>, UnwrapOr(r.outputs, <<>>))
       IN  /\ srcs # <<>>
           /\ sources' = srcs
           /\ tasks' = ResolveFutures(srcs)
           /\ output' = TextBeforeJoin(r)
    /\ pc' = "join"
    /\ UNCHANGED <<cli, env_key, exit_code, err, calls, http, http_resp,
                   response, done_order, stdout>>

\* future i completes with this Option of outcome and this result
Complete(i, client, head, resolved) ==
    /\ tasks' = [tasks EXCEPT ![i] = [@ EXCEPT !.st = "done", !.client = client,
                                               !.head = head,
                                               !.resolved = Some(resolved)]]
    /\ done_order' = Append(done_order, i)

\* resolve_redirect_url of a URL without the marker: return url
ResolvePassThrough(i) ==
    /\ pc = "join"
    /\ tasks[i].st = "pending"
    /\ ~NeedsResolution(tasks[i].url)
    /\ Complete(i, "", None, tasks[i].url)
    /\ UNCHANGED <<cli, env_key, pc, exit_code, err, calls, http,
                   http_resp, response, output, sources, stdout>>

\* resolve_redirect_url: Client::builder()...build() is an Err
ResolveBuildFails(i) ==
    /\ pc = "join"
    /\ tasks[i].st = "pending"
    /\ NeedsResolution(tasks[i].url)
    /\ Complete(i, "err", None, tasks[i].url)
    /\ UNCHANGED <<cli, env_key, pc, exit_code, err, calls, http,
                   http_resp, response, output, sources, stdout>>

\* resolve_redirect_url: the client is built and client.head(&url).send() is awaited
ResolveSendHead(i) ==
    /\ pc = "join"
    /\ tasks[i].st = "pending"
    /\ NeedsResolution(tasks[i].url)
    /\ tasks' = [tasks EXCEPT ![i] = [@ EXCEPT !.st = "inflight", !.client = "ok"]]
    /\ http' = http \cup {Request("HEAD", tasks[i].url)}
    /\ UNCHANGED <<cli, env_key, pc, exit_code, err, calls, http_resp,
                   response, output, sources, done_order, stdout>>

\* resolve_redirect_url: the HEAD request ends, one way or another
ResolveHeadDone(i) ==
    /\ pc = "join"
    /\ tasks[i].st = "inflight"
    /\ \E o \in HeadOutcomes :
           Complete(i, "ok", Some(o), HeadResult(tasks[i].url, o))
    /\ UNCHANGED <<cli, env_key, pc, exit_code, err, calls, http,
                   http_resp, response, output, sources, stdout>>

\* join_all is ready when every future has completed
JoinReady(ts) == \A i \in 1..Len(ts) : ts[i].st = "done"

\* format_response after join_all(..).await: the Sources section and the footer
JoinDone ==
    /\ pc = "join"
    /\ JoinReady(tasks)
    /\ output' = output \o SourcesSection(JoinAll(tasks, done_order))
                        \o Footer(Unwrap(response))
    /\ pc' = "print"
    /\ UNCHANGED <<cli, env_key, exit_code, err, calls, http, http_resp,
                   response, sources, tasks, done_order, stdout>>

\* println!("{}", ...); Ok(())
PrintLn ==
    /\ pc = "print"
    /\ stdout' = Append(stdout, output)
    /\ pc' = "exited"
    /\ exit_code' = Some(0)
    /\ UNCHANGED <<cli, env_key, err, calls, http, http_resp, response,
                   output, sources, tasks, done_order>>

Resolve ==
    \E i \in 1..Len(tasks) :
        \/ ResolvePassThrough(i)
        \/ ResolveBuildFails(i)
        \/ ResolveSendHead(i)
        \/ ResolveHeadDone(i)

Next ==
    \/ ParseRejects
    \/ ParseAccepts
    \/ NoMode
    \/ CallTransport
    \/ GetApiKeyFails
    \/ SendRequest
    \/ SendFails
    \/ ReceiveResponse
    \/ DecodeFails
    \/ DecodeOk
    \/ FormatJson
    \/ FormatError
    \/ FormatTextNoSources
    \/ FormatTextSpawn
    \/ Resolve
    \/ JoinDone
    \/ PrintLn

Spec == Init /\ [][Next]_vars

----------------------------------------------------------------------------
(* format_response on its own: main has decoded a response (here of `--ask`)  *)
(* and calls format_response with it                                          *)

InitRender ==
    /\ cli \in {c \in Argvs : c.ask /\ ~c.search /\ ~c.think /\ c.command = None}
    /\ env_key = Some("secret")
    /\ pc = "format"
    /\ exit_code = None
    /\ err = ""
    /\ calls = <<Unwrap(Dispatch(cli))>>
    /\ http = {TransportRequest("create")}
    /\ \E r \in Responses(MaxOutputs), status \in HttpStatuses :
           /\ http_resp = Some([status |-> status, body |-> Some(r)])
           /\ response = Some(r)
    /\ output = <<>>
    /\ sources = <<>>
    /\ tasks = <<>>
    /\ done_order = <<>>
    /\ stdout = <<>>

NextRender ==
    \/ FormatJson
    \/ FormatError
    \/ FormatTextNoSources
    \/ FormatTextSpawn
    \/ Resolve
    \/ JoinDone
    \/ PrintLn

SpecRender == InitRender /\ [][NextRender]_vars

----------------------------------------------------------------------------
(* Properties *)

\* format_response has returned
Returned == pc \in {"print", "exited"} /\ IsSome(response)

\* the decoded response carries an error
HasError == IsSome(response) /\ IsSome(Unwrap(response).error)

\* the line "Error: {message or 'Unknown error'}\n" of the decoded response
ExpectedErrorLine ==
    LET e == Unwrap(Unwrap(response).error)
    IN  ErrorPiece(IF e.message = None THEN "Unknown error" ELSE e.message[1])

IsSourceLine(p) == p.kind = "source"
SourceLines == SelectSeq(output, IsSourceLine)

HeadRequests == {q \in http : q.method = "HEAD"}

\* the resolution of future i failed: no client, no response, or no text header
ResolutionFailed(t) ==
    \/ t.client = "err"
    \/ /\ IsSome(t.head)
       /\ \/ Unwrap(t.head).send # "ok"
          \/ Unwrap(t.head).location = None
          \/ Unwrap(Unwrap(t.head).location).to_str = None

\* C1 as stated: whenever the decoded response carries an error, format_response
\* returns the line "Error: ..." and no JSON, whatever the output format.
C1_ErrorLineInEveryFormat ==
    (Returned /\ HasError) => output = <<ExpectedErrorLine>>

\* C1, amended: with an error in the response, format_response returns exactly the
\* line "Error: ..." in text mode; in JSON mode the format is matched first and the
\* result is the JSON serialization of the whole response, not the error line.
C1_ErrorLineOnlyInTextMode ==
    (Returned /\ HasError) =>
        /\ cli.output = "Text" => output = <<ExpectedErrorLine>>
        /\ cli.output = "Json" =>
               /\ output = <<JsonPiece(Unwrap(response))>>
               /\ \A i \in 1..Len(output) : output[i].kind # "error"

C1_Witness ==
    /\ pc = "exited" /\ HasError
    /\ cli.output = "Json"
    /\ stdout = <<(<<JsonPiece(Unwrap(response))>>)>>

\* C2: in text mode a response with an error is rendered as exactly the line
\* "Error: ..." -- no text, no Sources section, no separator, no hint -- and no
\* redirect resolution is started, whatever outputs and id the response carries.
C2_TextErrorIsOnlyTheErrorLine ==
    (HasError /\ cli.output = "Text") =>
        /\ pc # "join"
        /\ sources = <<>> /\ tasks = <<>>
        /\ HeadRequests = {}
        /\ Returned => output = <<ExpectedErrorLine>>
        /\ pc = "exited" => stdout = <<(<<ExpectedErrorLine>>)>>

C2_Witness ==
    /\ pc = "exited" /\ HasError /\ cli.output = "Text"
    /\ IsSome(Unwrap(response).id)
    /\ IsSome(Unwrap(response).outputs)
    /\ \E i \in 1..Len(Unwrap(Unwrap(response).outputs)) :
           LET out == Unwrap(Unwrap(response).outputs)[i]
           IN  /\ out.type = "google_search_result"
               /\ IsSome(out.annotations) /\ IsSome(out.result)
    /\ Unwrap(Unwrap(response).error).message = None
    /\ stdout = <<(<<ErrorPiece("Unknown error")>>)>>

\* C3: whatever the order in which the resolutions complete, entry i of the
\* rendered Sources list is numbered i and carries the title of source i and the
\* result of resolving the URL of source i.
C3_SourcesInDiscoveryOrder ==
    (Returned /\ tasks # <<>>) =>
        /\ Len(SourceLines) = Len(sources)
        /\ Len(tasks) = Len(sources)
        /\ \A i \in 1..Len(SourceLines) :
               /\ SourceLines[i].n = i
               /\ SourceLines[i].title = sources[i].title
               /\ tasks[i].url = sources[i].url
               /\ SourceLines[i].url = Unwrap(tasks[i].resolved)

C3_Witness ==
    /\ pc = "exited"
    /\ done_order = <<3, 2, 1>>
    /\ \A i \in 1..3, j \in 1..3 : i # j => SourceLines[i].url # SourceLines[j].url
    /\ \E i \in 1..3 : SourceLines[i].url # sources[i].url

\* the candidate sources of one Output and of a list of outputs, in scan order
AnnotationCandidates(out) ==
    IF out.annotations = None THEN <<>>
    ELSE LET anns == out.annotations[1]
             Present(a) == a.source # None
             present == SelectSeq(anns, Present)
         IN  [k \in 1..Len(present) |-> Source("Source", present[k].source[1])]

ResultCandidates(out) ==
    IF out.type # "google_search_result" \/ out.result = None THEN <<>>
    ELSE LET results == out.result[1]
             Present(x) == x.url # None
             present == SelectSeq(results, Present)
         IN  [k \in 1..Len(present) |->
                 Source(IF present[k].title = None THEN "Untitled"
                        ELSE present[k].title[1], present[k].url[1])]

RECURSIVE Candidates(_)
Candidates(outs) ==
    IF outs = <<>> THEN <<>>
    ELSE AnnotationCandidates(Head(outs)) \o ResultCandidates(Head(outs))
             \o Candidates(Tail(outs))

ResponseCandidates ==
    IF Unwrap(response).outputs = None THEN <<>>
    ELSE Candidates(Unwrap(Unwrap(response).outputs))

\* the position of the first candidate with this url
FirstIndex(cands, url) ==
    CHOOSE j \in 1..Len(cands) :
        /\ cands[j].url = url
        /\ \A k \in 1..(j - 1) : cands[k].url # url

\* C4: in text mode the collected sources are the candidates deduplicated by URL
\* alone: one entry per distinct candidate URL, carrying the title of the first
\* candidate with that URL, in the order of first occurrence; the rendered list
\* has as many entries as the response has distinct candidate URLs.
C4_DedupByUrlFirstTitleWins ==
    (Returned /\ cli.output = "Text" /\ ~HasError) =>
        LET cands == ResponseCandidates
            urls == {cands[j].url : j \in 1..Len(cands)}
        IN  /\ Len(sources) = Cardinality(urls)
            /\ Len(SourceLines) = Cardinality(urls)
            /\ \A i \in 1..Len(sources) :
                   /\ sources[i].url \in urls
                   /\ sources[i] = cands[FirstIndex(cands, sources[i].url)]
                   /\ SourceLines[i].title = sources[i].title
            /\ \A i \in 1..Len(sources), j \in 1..Len(sources) :
                   i < j => FirstIndex(cands, sources[i].url)
                                < FirstIndex(cands, sources[j].url)

C4_Witness ==
    /\ pc = "exited" /\ cli.output = "Text" /\ ~HasError
    /\ Len(sources) = 2
    /\ Len(SourceLines) = 2
    /\ \E j \in 1..Len(ResponseCandidates), k \in 1..Len(ResponseCandidates) :
           /\ j < k
           /\ ResponseCandidates[j].url = ResponseCandidates[k].url
           /\ ResponseCandidates[j].title # ResponseCandidates[k].title
           /\ sources[1] = ResponseCandidates[j]

\* C5: resolve_redirect_url never fails outward: a resolution that failed (client
\* not built, send error, timeout, no location header, header that is no text)
\* returns the URL unchanged, only a text location header is returned in its
\* place, and the invocation ends as it does without failures.
C5_ResolverFallsBackToInput ==
    /\ \A i \in 1..Len(tasks) :
           tasks[i].st = "done" =>
               /\ IsSome(tasks[i].resolved)
               /\ ResolutionFailed(tasks[i]) => tasks[i].resolved = Some(tasks[i].url)
               /\ tasks[i].resolved # Some(tasks[i].url) =>
                      /\ IsSome(tasks[i].head)
                      /\ Unwrap(tasks[i].head).send = "ok"
                      /\ Unwrap(tasks[i].head).location
                             = Some([to_str |-> tasks[i].resolved])
    /\ tasks # <<>> => err = ""
    /\ (pc = "exited" /\ tasks # <<>>) => exit_code = Some(0)

C5_Witness ==
    /\ pc = "exited"
    /\ Len(tasks) = 3
    /\ \E i \in 1..3, j \in 1..3, k \in 1..3 :
           /\ tasks[i].head = Some([send |-> "timeout", location |-> None])
           /\ tasks[i].resolved = Some(tasks[i].url)
           /\ tasks[j].head = Some([send |-> "ok", location |-> Some([to_str |-> None])])
           /\ tasks[j].resolved = Some(tasks[j].url)
           /\ tasks[k].client = ""

\* C6: a HEAD request is only ever sent for a collected source URL that contains
\* the redirect marker; a URL without the marker is returned as it is, with no
\* client built and no request sent.
C6_NoRequestForPlainUrl ==
    /\ \A q \in HeadRequests :
           /\ Contains(q.target, RedirectMarker)
           /\ \E i \in 1..Len(sources) : sources[i].url = q.target
    /\ \A i \in 1..Len(tasks) :
           ~Contains(tasks[i].url, RedirectMarker) =>
               /\ tasks[i].st # "inflight"
               /\ tasks[i].client = "" /\ tasks[i].head = None
               /\ tasks[i].st = "done" => tasks[i].resolved = Some(tasks[i].url)

C6_Witness ==
    /\ pc = "exited"
    /\ \E i \in 1..Len(tasks) :
           /\ tasks[i].url = Plain
           /\ tasks[i].resolved = Some(Plain)
    /\ HeadRequests = {Request("HEAD", RedirB)}

\* C9: while any resolution is pending the rendered text holds no Sources
\* section, separator or hint; these are written only once every future has
\* completed, and the result is printed once, whole, at the end.
C9_JoinAllBarrier ==
    /\ (/\ tasks # <<>>
        /\ \E k \in 1..Len(output) :
               output[k].kind \in {"sources", "source", "separator", "hint"})
           => JoinReady(tasks)
    /\ pc = "join" => stdout = <<>>
    /\ Len(stdout) <= 1
    /\ stdout # <<>> => (pc = "exited" /\ stdout = <<output>>)
    /\ (pc = "exited" /\ tasks # <<>>) => Len(stdout) = 1
    /\ (Returned /\ tasks # <<>>) =>
           /\ Len(SourceLines) = Len(tasks)
           /\ \E k \in 1..Len(output) : output[k].kind = "separator"

C9_Witness ==
    /\ pc = "join"
    /\ \E i \in 1..Len(tasks), j \in 1..Len(tasks) :
           /\ tasks[i].st = "done"
           /\ tasks[j].st = "inflight"
    /\ output # <<>>

\* the shorthand flags and the subcommand selected on the command line
NumModes(c) == Cardinality(PresentFlags(c)) + (IF c.command = None THEN 0 ELSE 1)

\* the Transport call of the one mode selected (the table of the modes)
ModeCall(c) ==
    LET mode == IF c.search THEN "Search"
                ELSE IF c.ask THEN "Ask"
                ELSE IF c.think THEN "Think"
                ELSE c.command[1].name
    IN  CASE mode = "Search"   -> Call("create", "minimal", Some("search_template"), 4096)
          [] mode = "Ask"      -> Call("create", "medium", Some("concise"), 8192)
          [] mode = "Think"    -> Call("create", "high", Some("step_by_step"), 16384)
          [] mode = "FollowUp" -> Call("create", c.command[1].thinking_level, None, 8192)
          [] mode = "Status"   -> Call("get", "", None, 0)
          [] mode = "Cancel"   -> Call("cancel", "", None, 0)

\* C7 as stated: more than one mode selected is rejected by the argument parser
\* and no Transport call is made; exactly one mode leads to exactly the Transport
\* call of that mode; no mode ends the process with status 1 and no call.
C7_ExactlyOneMode ==
    /\ NumModes(cli) > 1 =>
           /\ pc \in {"parse", "exited"}
           /\ calls = <<>> /\ http = {}
           /\ pc = "exited" => exit_code = Some(2)
    /\ NumModes(cli) = 1 =>
           /\ Len(calls) <= 1
           /\ pc \notin {"parse", "dispatch"} => calls = <<ModeCall(cli)>>
    /\ NumModes(cli) = 0 =>
           /\ pc \in {"parse", "dispatch", "exited"}
           /\ calls = <<>> /\ http = {}
           /\ pc = "exited" => exit_code = Some(1)

\* C8: without the credential in the environment no HTTP request is ever made,
\* by a Transport function or by the resolver, nothing is rendered or printed,
\* and a Transport call ends the process with a failure status.
C8_NoRequestWithoutKey ==
    env_key = None =>
        /\ http = {}
        /\ http_resp = None /\ response = None
        /\ output = <<>> /\ tasks = <<>> /\ stdout = <<>>
        /\ pc = "exited" => exit_code # Some(0)
        /\ (pc = "exited" /\ calls # <<>>) =>
               exit_code = Some(1) /\ err = ConfigError

C8_Witness ==
    /\ env_key = None
    /\ pc = "exited"
    /\ Len(calls) = 1 /\ calls[1].op = "cancel"
    /\ exit_code = Some(1)

\* C10: a missing credential, a send failure and an undecodable body each end the
\* process with a failure status and nothing printed; a decoded response -- with
\* an error in it or not, of whatever HTTP status -- is rendered and printed and
\* the process ends with status 0, resolver failures or not.
C10_ErrorPropagationByKind ==
    /\ pc = "exited" =>
           /\ err \in {ConfigError, TransportError, DecodeError} =>
                  exit_code # Some(0) /\ stdout = <<>> /\ output = <<>>
           /\ (calls # <<>> /\ env_key = None) => err = ConfigError
           /\ (http # {} /\ http_resp = None) => err = TransportError
           /\ (IsSome(http_resp) /\ Unwrap(http_resp).body = None) => err = DecodeError
           /\ (IsSome(http_resp) /\ IsSome(Unwrap(http_resp).body)) =>
                  /\ response = Unwrap(http_resp).body
                  /\ err = ""
                  /\ exit_code = Some(0)
                  /\ stdout = <<output>> /\ output # <<>>
    /\ (pc # "exited") => (exit_code = None /\ stdout = <<>>)

C10_Witness ==
    /\ pc = "exited"
    /\ IsSome(http_resp) /\ Unwrap(http_resp).status = "429"
    /\ HasError
    /\ exit_code = Some(0)
    /\ Len(stdout) = 1

====
